---- MODULE Spec2Model ----
(***************************************************************************)
(* Hybrid course retrieval (information-retrieval/retriever.py and         *)
(* RAG/retriever.py): CourseRetriever.search and                           *)
(* CourseRetriever.find_similar over an index built once from a catalog,   *)
(* the HTTP services around them, and the sentiment and PDF services of    *)
(* the same repository.                                                    *)
(*                                                                         *)
(* Numbers.  Vectors are pairs of integers whose Euclidean norm is an      *)
(* integer, so that cosine similarity is exact: a cosine is carried as the *)
(* integer 25 * cos (range -25..25).  alpha is carried as the numerator of *)
(* alpha = a / AlphaDen.  A score is carried in units of 1/(25*AlphaDen),  *)
(* so a single-mode score is AlphaDen * (25 * cos) and a hybrid score is   *)
(* a * dense + (AlphaDen - a) * sparse.                                    *)
(* Positions are 1-based here and 0-based in the Python source.            *)
(*                                                                         *)
(* Six specifications share the state:                                     *)
(*   Spec       the retriever's methods called on the index the            *)
(*              information-retrieval service builds at startup;           *)
(*   BuildSpec  startup of both services over catalogs with missing        *)
(*              fields, under both ways the repository runs the app, and   *)
(*              the HTTP handlers that use the retriever;                  *)
(*   ConcSpec   two request threads running retriever calls step by step;  *)
(*   HttpSpec   requests with raw parameters: validation, the similar,     *)
(*              search and ask endpoints;                                  *)
(*   SentimentSpec  SentimentAnalyzer.analyze over short texts;            *)
(*   PdfSpec    uploads to the extract-sentences endpoint.                 *)
(***************************************************************************)
EXTENDS Integers, Sequences, FiniteSets, TLC

VARIABLES
    (* the process: which service, how it is run, the loaded catalog *)
    service, host, courses, phase, build_error, course_retriever,
    (* ObjectiveRetriever's texts and metadata *)
    objective_texts, objective_metadata,
    (* CourseRetriever's attributes *)
    texts, course_ids, metadata, tfidf_matrix, embeddings, tieRank,
    (* the call being made, its locals and its outcome *)
    call, fault, outcome, scored, top_indices, results,
    (* history: a call failed earlier; the previous identical call *)
    failed_before, prev,
    (* the request threads of ConcSpec *)
    threads, last_scores,
    (* the HTTP request being answered (HttpSpec): its raw parameters, the  *)
    (* status code, the calls made to the answer step, the response body    *)
    request, status, llm_calls, response,
    (* the sentiment service (SentimentSpec): the words of the posted text, *)
    (* the detected language, analyze's result, the status of the answer    *)
    sa_words, sa_language, sa_score, sa_status,
    (* the PDF service (PdfSpec): the upload being answered, its status,    *)
    (* the temporary files on disk, the number of uploads so far            *)
    pdf_upload, pdf_status, temp_files, uploads

vars == <<service, host, courses, phase, build_error, course_retriever,
          objective_texts, objective_metadata,
          texts, course_ids, metadata, tfidf_matrix, embeddings, tieRank,
          call, fault, outcome, scored, top_indices, results,
          failed_before, prev, threads, last_scores,
          request, status, llm_calls, response,
          sa_words, sa_language, sa_score, sa_status,
          pdf_upload, pdf_status, temp_files, uploads>>

index == <<texts, course_ids, metadata, tfidf_matrix, embeddings, tieRank>>

process == <<service, host, courses, phase, build_error, course_retriever,
             objective_texts, objective_metadata>>

conc == <<threads, last_scores>>

http == <<request, status, llm_calls, response>>

sentiment == <<sa_words, sa_language, sa_score, sa_status>>

pdf == <<pdf_upload, pdf_status, temp_files, uploads>>

(* the state of the services other than the two retrieval services *)
apart == <<sentiment, pdf>>

(* the state of the two retrieval services *)
retrieval == <<index, process, call, fault, outcome, scored, top_indices,
               results, failed_before, prev, conc, http>>

----------------------------------------------------------------------------
(* Bounds *)

MaxDocs == 3
MaxTopK == 4
AlphaDen == 2
MaxRaw == 2

----------------------------------------------------------------------------
(* The catalog records the index is built from.  tfidf is the row the      *)
(* fitted TfidfVectorizer produces for the record's text (L2-normalised,   *)
(* non-negative, all-zero when no term of the text is in the vocabulary),  *)
(* emb the row the sentence encoder produces (not normalised).             *)

CourseA == [title |-> "A", tfidf |-> <<5, 0>>, emb |-> <<5, 0>>]
CourseB == [title |-> "B", tfidf |-> <<0, 5>>, emb |-> <<0, 10>>]
CourseC == [title |-> "C", tfidf |-> <<4, 3>>, emb |-> <<3, 4>>]
CourseZ == [title |-> "Z", tfidf |-> <<0, 0>>, emb |-> <<-5, 0>>]

CourseRecords == {CourseA, CourseB, CourseC, CourseZ}

AllIds == <<"c1", "c2", "c3", "c4", "c5">>

UnknownId == "nope"

Modes == {"sparse", "dense", "hybrid", "bm25"}

ValidModes == {"sparse", "dense", "hybrid"}

(* top_k is any Python int: the values below 1 are the ones the HTTP layer  *)
(* would reject, -1 makes a slice bound count from the end                 *)
TopKs == (0 - 1)..MaxTopK

Alphas == (0 - 1)..(AlphaDen + 1)

Queries == {"machine", "stats", ""}

(* tfidf_vectorizer.transform([query]): the fitted vocabulary applied to   *)
(* the query; a query without any vocabulary term gives the zero row.      *)
Transform(query) ==
    CASE query = "machine" -> <<5, 0>>
      [] query = "stats"   -> <<3, 4>>
      [] OTHER             -> <<0, 0>>

(* model.encode([query]) *)
Encode(query) ==
    CASE query = "machine" -> <<0, 5>>
      [] query = "stats"   -> <<5, 0>>
      [] OTHER             -> <<3, 4>>

----------------------------------------------------------------------------
(* Vector arithmetic *)

Dot(u, v) == u[1] * v[1] + u[2] * v[2]

Norm(u) == CHOOSE n \in 0..10 : n * n = Dot(u, u)

(* Cosine that calls two zero rows identical (similarity 1) *)
Cosine_ZeroRowsAlike(u, v) ==
    IF Norm(u) = 0 /\ Norm(v) = 0
    THEN 25
    ELSE IF Norm(u) = 0 \/ Norm(v) = 0
    THEN 0
    ELSE (25 * Dot(u, v)) \div (Norm(u) * Norm(v))

(* sklearn cosine_similarity(X, Y) for one row of X and one row of Y:      *)
(* both rows are L2-normalised (a zero row stays zero), then multiplied.   *)
Cosine(u, v) ==
    IF Norm(u) = 0 \/ Norm(v) = 0
    THEN 0
    ELSE (25 * Dot(u, v)) \div (Norm(u) * Norm(v))

(* cosine_similarity(q, M).flatten() *)
CosineRow(q, M) == [i \in 1..Len(M) |-> Cosine(q, M[i])]

(* _sparse_search that drops the similarities below a threshold to 0 *)
_sparse_search_Thresholded(query) ==
    [i \in 1..Len(tfidf_matrix) |->
        IF Cosine(Transform(query), tfidf_matrix[i]) < 20
        THEN 0
        ELSE Cosine(Transform(query), tfidf_matrix[i])]

(* cosine_similarity(tfidf_vectorizer.transform([query]), tfidf_matrix) *)
_sparse_search(query) == CosineRow(Transform(query), tfidf_matrix)

_dense_search(query) == CosineRow(Encode(query), embeddings)

Scale(s) == [i \in 1..Len(s) |-> AlphaDen * s[i]]

(* Fuse with the two weights exchanged *)
Fuse_SwappedWeights(dense, sparse, alpha) ==
    [i \in 1..Len(dense) |-> alpha * sparse[i] + (AlphaDen - alpha) * dense[i]]

(* Fuse pairing dense position i with the mirrored sparse position *)
Fuse_Misaligned(dense, sparse, alpha) ==
    [i \in 1..Len(dense) |->
        alpha * dense[i] + (AlphaDen - alpha) * sparse[Len(sparse) + 1 - i]]

(* alpha * dense + (1 - alpha) * sparse, elementwise *)
Fuse(dense, sparse, alpha) ==
    [i \in 1..Len(dense) |-> alpha * dense[i] + (AlphaDen - alpha) * sparse[i]]

----------------------------------------------------------------------------
(* numpy and Python sequence operations *)

(* np.argsort(scores) with the default kind: ascending by score.  The      *)
(* default sort is not stable; the order it gives to equal scores is fixed *)
(* by the numpy build and is carried by tieRank (the identity is the       *)
(* stable order).                                                          *)
(* Before with a tie order that changes from one call to the next (an      *)
(* unseeded random tie-break): the first call of a pair sees no call in    *)
(* progress, the second one does                                           *)
Before_HistoryDependent(scores, i, j) ==
    \/ scores[i] < scores[j]
    \/ /\ scores[i] = scores[j]
       /\ IF call.op = "none" THEN tieRank[i] < tieRank[j]
                              ELSE tieRank[i] > tieRank[j]

Before(scores, i, j) ==
    \/ scores[i] < scores[j]
    \/ scores[i] = scores[j] /\ tieRank[i] < tieRank[j]

argsort(scores) ==
    [k \in 1..Len(scores) |->
        CHOOSE i \in 1..Len(scores) :
            Cardinality({j \in 1..Len(scores) : Before(scores, j, i)}) = k - 1]

(* s[::-1] *)
Reversed(s) == [k \in 1..Len(s) |-> s[Len(s) + 1 - k]]

(* Python's normalisation of a slice bound against a length *)
Bound(b, n) ==
    IF b < 0 THEN (IF b + n < 0 THEN 0 ELSE b + n)
    ELSE (IF b > n THEN n ELSE b)

(* s[start:stop] *)
Slice(s, start, stop) ==
    LET lo == Bound(start, Len(s))
        hi == Bound(stop, Len(s))
    IN  IF lo >= hi THEN <<>> ELSE SubSeq(s, lo + 1, hi)

(* BuildResults reporting, for the k-th result, the score at position k    *)
(* of the scores array                                                     *)
BuildResults_ScoreOfRank(idxs, scores) ==
    [k \in 1..Len(idxs) |->
        [course_id |-> course_ids[idxs[k]],
         title     |-> metadata[idxs[k]].title,
         score     |-> scores[k]]]

(* the result dicts built from top_indices *)
BuildResults(idxs, scores) ==
    [k \in 1..Len(idxs) |->
        [course_id |-> course_ids[idxs[k]],
         title     |-> metadata[idxs[k]].title,
         score     |-> scores[idxs[k]]]]

(* IndexOf with a -1 sentinel for an absent x, which Python then reads as   *)
(* the last position                                                       *)
IndexOf_LastWhenAbsent(ids, x) ==
    IF \E i \in 1..Len(ids) : ids[i] = x
    THEN CHOOSE i \in 1..Len(ids) :
            ids[i] = x /\ \A j \in 1..(i - 1) : ids[j] # x
    ELSE Len(ids)

(* list.index(x): the first position holding x, 0 when absent (ValueError) *)
IndexOf(ids, x) ==
    IF \E i \in 1..Len(ids) : ids[i] = x
    THEN CHOOSE i \in 1..Len(ids) :
            ids[i] = x /\ \A j \in 1..(i - 1) : ids[j] # x
    ELSE 0

----------------------------------------------------------------------------
(* The loaded catalog.  An entry is [key, data]: data is the JSON object   *)
(* of one course, a function from the field names that are present; key   *)
(* is its key in courses.json (information-retrieval) and unused for a     *)
(* line of dtu_courses.jsonl (RAG).  The content field is a string given   *)
(* by its runs of characters.                                              *)

Has(d, k) == k \in DOMAIN d

(* dict.get(k, default) *)
Get(d, k, default) == IF k \in DOMAIN d THEN d[k] ELSE default

EmptyDict == [k \in {} |-> ""]

IRData(title) == ("title" :> title) @@ ("learning-objectives" :> <<"o">>)

(* The rows the fitted vectorizer and the encoder give a document text: a  *)
(* text is the sequence of its lines and is told by its first line, the    *)
(* title; a text without a known title has no vocabulary term.             *)
TfidfRow(text) ==
    IF \E r \in CourseRecords : r.title = text[1]
    THEN (CHOOSE r \in CourseRecords : r.title = text[1]).tfidf
    ELSE Transform("")

EmbRow(text) ==
    IF \E r \in CourseRecords : r.title = text[1]
    THEN (CHOOSE r \in CourseRecords : r.title = text[1]).emb
    ELSE Encode("")

(* build_course_documents of information-retrieval/indexer.py whose ids    *)
(* come out in reverse catalog order                                       *)
ir_build_course_documents_ReversedIds(cs) ==
    IF \E i \in 1..Len(cs) :
          ~Has(cs[i].data, "title") \/ ~Has(cs[i].data, "learning-objectives")
    THEN [error |-> "KeyError", texts |-> <<>>, metadata |-> <<>>, course_ids |-> <<>>]
    ELSE [error      |-> "none",
          texts      |-> [i \in 1..Len(cs) |->
                            <<cs[i].data["title"]>> \o
                            (IF cs[i].data["learning-objectives"] = <<>>
                             THEN <<"">>
                             ELSE cs[i].data["learning-objectives"])],
          metadata   |-> [i \in 1..Len(cs) |->
                            [course_id |-> cs[i].key,
                             title     |-> cs[i].data["title"]]],
          course_ids |-> [i \in 1..Len(cs) |-> cs[Len(cs) + 1 - i].key]]

(* build_course_documents of information-retrieval/indexer.py:             *)
(* text = title + "\n" + "\n".join(objectives); data['title'] and          *)
(* data['learning-objectives'] raise KeyError when absent.                 *)
ir_build_course_documents(cs) ==
    IF \E i \in 1..Len(cs) :
          ~Has(cs[i].data, "title") \/ ~Has(cs[i].data, "learning-objectives")
    THEN [error |-> "KeyError", texts |-> <<>>, metadata |-> <<>>, course_ids |-> <<>>]
    ELSE [error      |-> "none",
          texts      |-> [i \in 1..Len(cs) |->
                            <<cs[i].data["title"]>> \o
                            (IF cs[i].data["learning-objectives"] = <<>>
                             THEN <<"">>
                             ELSE cs[i].data["learning-objectives"])],
          metadata   |-> [i \in 1..Len(cs) |->
                            [course_id |-> cs[i].key,
                             title     |-> cs[i].data["title"]]],
          course_ids |-> [i \in 1..Len(cs) |-> cs[i].key]]

(* the inner loop of build_objective_documents with the objectives of a    *)
(* course taken last to first                                              *)
objective_documents_LastFirst(course_id, course_data) ==
    LET n == Len(course_data["learning-objectives"])
    IN  [k \in 1..n |->
            [text     |-> <<course_data["title"], "-",
                            course_data["learning-objectives"][n + 1 - k]>>,
             metadata |-> [course_id |-> course_id,
                           title     |-> course_data["title"],
                           objective |-> course_data["learning-objectives"][n + 1 - k]]]]

(* the inner loop of build_objective_documents: for each objective of one  *)
(* course the text f"{title} - {objective}" and its metadata               *)
objective_documents(course_id, course_data) ==
    [k \in 1..Len(course_data["learning-objectives"]) |->
        [text     |-> <<course_data["title"], "-",
                        course_data["learning-objectives"][k]>>,
         metadata |-> [course_id |-> course_id,
                       title     |-> course_data["title"],
                       objective |-> course_data["learning-objectives"][k]]]]

(* build_objective_documents: the outer loop, courses in catalog order *)
RECURSIVE build_objective_documents(_)
build_objective_documents(cs) ==
    IF cs = <<>> THEN <<>>
    ELSE objective_documents(Head(cs).key, Head(cs).data)
         \o build_objective_documents(Tail(cs))

(* the texts list build_objective_documents returns *)
ir_objective_texts(cs) ==
    [i \in 1..Len(build_objective_documents(cs)) |->
        build_objective_documents(cs)[i].text]

(* the metadata list build_objective_documents returns *)
ir_objective_metadata(cs) ==
    [i \in 1..Len(build_objective_documents(cs)) |->
        build_objective_documents(cs)[i].metadata]

(* A long string is the sequence of its runs, [ch, n] being n times the    *)
(* character ch.                                                           *)
RECURSIVE StrLen(_)
StrLen(str) == IF str = <<>> THEN 0 ELSE Head(str).n + StrLen(Tail(str))

(* a slice that leaves the string whole *)
Prefix_Untruncated(str, n) == str

(* str[:n] for n >= 0 *)
RECURSIVE Prefix(_, _)
Prefix(str, n) ==
    IF str = <<>> \/ n <= 0 THEN <<>>
    ELSE IF Head(str).n <= n
    THEN <<Head(str)>> \o Prefix(Tail(str), n - Head(str).n)
    ELSE <<[ch |-> Head(str).ch, n |-> n]>>

(* the slice bound of content[:2000] *)
ContentLimit == 2000

(* build_course_text of RAG/indexer.py: the parts joined by "\n" *)
build_course_text(course) ==
    LET fields     == Get(course, "fields", EmptyDict)
        objectives == Get(course, "learning_objectives", <<>>)
        content    == Get(course, "content", <<>>)
    IN  <<Get(course, "title", "")>>
        \o (IF DOMAIN fields # {}
            THEN (IF Has(fields, "Responsible")
                  THEN <<<<"Taught by", fields["Responsible"]>>>>
                  ELSE <<>>)
                 \o <<<<"json", fields>>>>
            ELSE <<>>)
        \o (IF objectives # <<>> THEN <<<<"joined", objectives>>>> ELSE <<>>)
        \o (IF content # <<>>
            THEN <<<<"content", Prefix(content, ContentLimit)>>>>
            ELSE <<>>)

(* build_course_documents of RAG/indexer.py *)
rag_build_course_documents(cs) ==
    [error      |-> "none",
     texts      |-> [i \in 1..Len(cs) |-> build_course_text(cs[i].data)],
     metadata   |-> [i \in 1..Len(cs) |->
                       [course_code |-> Get(cs[i].data, "course_code", ""),
                        title       |-> Get(cs[i].data, "title", ""),
                        fields      |-> Get(cs[i].data, "fields", EmptyDict)]],
     course_ids |-> [i \in 1..Len(cs) |-> Get(cs[i].data, "course_code", "")]]

build_course_documents(svc, cs) ==
    IF svc = "ir" THEN ir_build_course_documents(cs)
    ELSE rag_build_course_documents(cs)

(* TfidfVectorizer.fit_transform raises ValueError ("empty vocabulary")    *)
(* when no text, or no text at all, holds a term.                          *)
EmptyVocabulary(ts) == \A i \in 1..Len(ts) : TfidfRow(ts[i]) = Transform("")

(* build_tfidf_index: the matrix, one row per text *)
build_tfidf_index(ts) == [i \in 1..Len(ts) |-> TfidfRow(ts[i])]

(* build_dense_index: model.encode(texts) *)
build_dense_index(ts) == [i \in 1..Len(ts) |-> EmbRow(ts[i])]

----------------------------------------------------------------------------
(* CourseRetriever.search *)

SearchScores(query, mode, alpha) ==
    CASE mode = "sparse" -> Scale(_sparse_search(query))
      [] mode = "dense"  -> Scale(_dense_search(query))
      [] mode = "hybrid" -> Fuse(_dense_search(query), _sparse_search(query), alpha)

(* SearchTop cutting at top_k - 1 *)
SearchTop_OffByOne(scores, top_k) == Slice(Reversed(argsort(scores)), 0, top_k - 1)

(* SearchTop without the reversal *)
SearchTop_Ascending(scores, top_k) == Slice(argsort(scores), 0, top_k)

SearchTop(scores, top_k) == Slice(Reversed(argsort(scores)), 0, top_k)

(* The if/elif chain on mode, with an error latch: once a call has failed  *)
(* every mode is refused                                                   *)
ModeAccepted_Latched(mode) == mode \in ValidModes /\ ~failed_before

(* the if/elif chain on mode; the else branch raises ValueError *)
ModeAccepted(mode) == mode \in ValidModes

(* The capability calls a mode makes, in order: transform for sparse,      *)
(* encode for dense, transform then encode for hybrid.  f is the           *)
(* capability that raises during this call ("none": neither does).         *)
Faults(mode) ==
    CASE mode = "sparse" -> {"none", "transform"}
      [] mode = "dense"  -> {"none", "encode"}
      [] mode = "hybrid" -> {"none", "transform", "encode"}
      [] OTHER           -> {"none"}

(* a search that catches the capability's exception and goes on *)
Propagates_Swallowed(mode, f) == FALSE

(* search has no try/except: an exception of transform or encode leaves    *)
(* the method                                                              *)
Propagates(mode, f) == f # "none" /\ f \in Faults(mode)

(* the methods that reorder self.course_ids in place *)
KeepIndex_ReordersIds ==
    /\ course_ids' = Reversed(course_ids)
    /\ UNCHANGED <<texts, metadata, tfidf_matrix, embeddings, tieRank>>

(* neither method assigns to an attribute of self *)
KeepIndex == UNCHANGED index

search(query, mode, top_k, alpha) ==
    /\ call' = [op |-> "search", arg |-> query, mode |-> mode,
                top_k |-> top_k, alpha |-> alpha]
    /\ IF ~ModeAccepted(mode)
       THEN /\ outcome' = "ValueError"
            /\ scored' = FALSE
            /\ top_indices' = <<>>
            /\ results' = <<>>
       ELSE IF Propagates(mode, fault')
       THEN /\ outcome' = "DependencyError"
            /\ scored' = (mode = "hybrid" /\ fault' = "encode")
            /\ top_indices' = <<>>
            /\ results' = <<>>
       ELSE LET scores == SearchScores(query, mode, alpha)
                top    == SearchTop(scores, top_k)
            IN  /\ outcome' = "returned"
                /\ scored' = TRUE
                /\ top_indices' = top
                /\ results' = BuildResults(top, scores)
    /\ failed_before' = (failed_before \/ outcome' # "returned")
    /\ KeepIndex

----------------------------------------------------------------------------
(* CourseRetriever.find_similar *)

SimilarScores(query_idx, mode, alpha) ==
    CASE mode = "sparse" -> Scale(CosineRow(tfidf_matrix[query_idx], tfidf_matrix))
      [] mode = "dense"  -> Scale(CosineRow(embeddings[query_idx], embeddings))
      [] mode = "hybrid" -> Fuse(CosineRow(embeddings[query_idx], embeddings),
                                 CosineRow(tfidf_matrix[query_idx], tfidf_matrix),
                                 alpha)

(* SimilarTop cutting at top_k instead of top_k + 1 *)
SimilarTop_OffByOne(similarities, top_k) ==
    Slice(Reversed(argsort(similarities)), 1, top_k)

SimilarTop(similarities, top_k) ==
    Slice(Reversed(argsort(similarities)), 1, top_k + 1)

find_similar(course_id, mode, top_k, alpha) ==
    /\ call' = [op |-> "find_similar", arg |-> course_id, mode |-> mode,
                top_k |-> top_k, alpha |-> alpha]
    /\ LET query_idx == IndexOf(course_ids, course_id)
       IN  IF query_idx = 0
           THEN /\ outcome' = "returned"
                /\ scored' = FALSE
                /\ top_indices' = <<>>
                /\ results' = <<>>
           ELSE IF ModeAccepted(mode)
           THEN LET similarities == SimilarScores(query_idx, mode, alpha)
                    top          == SimilarTop(similarities, top_k)
                IN  /\ outcome' = "returned"
                    /\ scored' = TRUE
                    /\ top_indices' = top
                    /\ results' = BuildResults(top, similarities)
           ELSE /\ outcome' = "ValueError"
                /\ scored' = FALSE
                /\ top_indices' = <<>>
                /\ results' = <<>>
    /\ failed_before' = (failed_before \/ outcome' # "returned")
    /\ KeepIndex

----------------------------------------------------------------------------
(* The process.  Importing main leaves course_retriever = None; lifespan   *)
(* builds the indices and assigns it.  Under uvicorn (main.py's __main__)  *)
(* the server awaits lifespan's startup before it serves and exits when    *)
(* startup raises; test_main.py drives the app through TestClient(app)     *)
(* without entering it as a context manager, which sends requests to the   *)
(* handlers without running lifespan at all.                               *)

(* the catalogs of Spec: 1..MaxDocs complete records (equal records are    *)
(* courses with the same text)                                             *)
Catalogs == UNION {[1..n -> CourseRecords] : n \in 1..MaxDocs}

(* courses.json of the information-retrieval service for such a catalog *)
IRCatalog(c) ==
    [i \in 1..Len(c) |-> [key |-> AllIds[i], data |-> IRData(c[i].title)]]

(* The tie orders of the numpy builds considered: the stable one (small    *)
(* arrays under the scalar introsort) and its mirror image.                *)
TieOrders(n) == {[i \in 1..n |-> i], [i \in 1..n |-> n + 1 - i]}

NoCall == [op |-> "none", arg |-> "", mode |-> "", top_k |-> 0, alpha |-> 0]

NoPrev == [outcome |-> "none", results |-> <<>>]

NoRequest == [endpoint |-> "none", arg |-> "", top_k |-> 0, mode |-> "", alpha |-> 0]

NoResponse == [kind |-> "none"]

NoUpload == [filename |-> [stem |-> "", suffix |-> ""], fault |-> "none"]

Workers == {1, 2}

(* a request thread: its position in the method, the call's arguments and  *)
(* locals, its outcome, and whether the other thread was inside a call     *)
(* at one of its steps                                                     *)
IdleThread == [pc |-> "idle", call |-> NoCall, scores |-> <<>>,
               top |-> <<>>, results |-> <<>>, outcome |-> "none",
               overlapped |-> FALSE]

InitRetrieval(svc, h, cs) ==
    /\ service = svc
    /\ host = h
    /\ courses = cs
    /\ phase = IF h = "uvicorn" THEN "starting" ELSE "serving"
    /\ build_error = "none"
    /\ course_retriever = "None"
    /\ objective_texts = <<>>
    /\ objective_metadata = <<>>
    /\ texts = <<>>
    /\ course_ids = <<>>
    /\ metadata = <<>>
    /\ tfidf_matrix = <<>>
    /\ embeddings = <<>>
    /\ tieRank \in TieOrders(Len(cs))
    /\ call = NoCall
    /\ fault = "none"
    /\ outcome = "none"
    /\ scored = FALSE
    /\ top_indices = <<>>
    /\ results = <<>>
    /\ failed_before = FALSE
    /\ prev = NoPrev
    /\ threads = [w \in Workers |-> IdleThread]
    /\ last_scores = <<>>
    /\ request = NoRequest
    /\ status = 0
    /\ llm_calls = 0
    /\ response = NoResponse

(* no text posted to the sentiment service *)
SentimentIdle ==
    /\ sa_words = <<>>
    /\ sa_language = "none"
    /\ sa_score = 0
    /\ sa_status = 0

(* no upload made to the PDF service *)
PdfIdle ==
    /\ pdf_upload = NoUpload
    /\ pdf_status = 0
    /\ temp_files = {}
    /\ uploads = 0

InitWith(svc, h, cs) == InitRetrieval(svc, h, cs) /\ SentimentIdle /\ PdfIdle

Init == \E c \in Catalogs : InitWith("ir", "uvicorn", IRCatalog(c))

(* lifespan up to its yield: build_all_indices, the retriever(s), and for  *)
(* RAG initialize_dspy, which raises ValueError without an API key.        *)
Lifespan ==
    /\ phase = "starting"
    /\ LET docs == build_course_documents(service, courses)
           obj  == ir_objective_texts(courses)
           err  == IF docs.error # "none" THEN docs.error
                   ELSE IF EmptyVocabulary(docs.texts) THEN "ValueError"
                   ELSE IF service = "ir" /\ EmptyVocabulary(obj) THEN "ValueError"
                   ELSE "none"
       IN  IF err # "none"
           THEN /\ phase' = "failed"
                /\ build_error' = err
                /\ UNCHANGED <<course_retriever, objective_texts,
                               objective_metadata, texts,
                               course_ids, metadata, tfidf_matrix, embeddings>>
           ELSE /\ texts' = docs.texts
                /\ metadata' = docs.metadata
                /\ course_ids' = docs.course_ids
                /\ tfidf_matrix' = build_tfidf_index(docs.texts)
                /\ embeddings' = build_dense_index(docs.texts)
                /\ course_retriever' = "built"
                /\ IF service = "ir"
                   THEN /\ objective_texts' = obj
                        /\ objective_metadata' = ir_objective_metadata(courses)
                        /\ phase' = "serving"
                        /\ build_error' = "none"
                   ELSE /\ objective_texts' = <<>>
                        /\ objective_metadata' = <<>>
                        /\ \E api_key \in BOOLEAN :
                              /\ phase' = IF api_key THEN "serving" ELSE "failed"
                              /\ build_error' = IF api_key THEN "none" ELSE "ValueError"
    /\ UNCHANGED <<service, host, courses, tieRank, call, fault, outcome, scored,
                   top_indices, results, failed_before, prev, conc, http, apart>>

(* One call runs at a time; Return hands the outcome to the caller and     *)
(* drops the call's locals.                                                *)
Idle == outcome = "none"

Serving == phase = "serving" /\ Idle

(* course_retriever.search(...) called directly *)
SearchCall ==
    /\ Serving
    /\ course_retriever = "built"
    /\ \E query \in Queries, mode \in Modes, top_k \in TopKs, alpha \in Alphas :
        \E f \in Faults(mode) :
            /\ fault' = f
            /\ search(query, mode, top_k, alpha)
    /\ UNCHANGED <<process, prev, conc, http, apart>>

(* course_retriever.find_similar(...) called directly; it calls neither    *)
(* transform nor encode                                                    *)
FindSimilarCall ==
    /\ Serving
    /\ course_retriever = "built"
    /\ \E course_id \in {AllIds[i] : i \in 1..Len(course_ids)} \cup {UnknownId},
       mode \in Modes, top_k \in TopKs, alpha \in Alphas :
        find_similar(course_id, mode, top_k, alpha)
    /\ fault' = "none"
    /\ UNCHANGED <<process, prev, conc, http, apart>>

(* the search just made is made once more with the same arguments *)
Repeat ==
    /\ ~Idle
    /\ call.op = "search"
    /\ fault = "none"
    /\ prev = NoPrev
    /\ prev' = [outcome |-> outcome, results |-> results]
    /\ fault' = "none"
    /\ search(call.arg, call.mode, call.top_k, call.alpha)
    /\ UNCHANGED <<process, conc, http, apart>>

Return ==
    /\ ~Idle
    /\ call' = NoCall
    /\ fault' = "none"
    /\ outcome' = "none"
    /\ scored' = FALSE
    /\ top_indices' = <<>>
    /\ results' = <<>>
    /\ prev' = NoPrev
    /\ request' = NoRequest
    /\ status' = 0
    /\ llm_calls' = 0
    /\ response' = NoResponse
    /\ UNCHANGED <<index, process, failed_before, conc, apart>>

Next == Lifespan \/ SearchCall \/ FindSimilarCall \/ Repeat \/ Return

Spec == Init /\ [][Next]_vars

----------------------------------------------------------------------------
(* BuildSpec: startup over raw catalogs, and the HTTP handlers *)

IRRawData ==
    {IRData("A"), IRData("Z"),
     ("title" :> "C") @@ ("learning-objectives" :> <<>>),
     ("title" :> "B") @@ ("learning-objectives" :> <<"o", "p">>),
     ("title" :> "A"),
     ("learning-objectives" :> <<"o">>)}

RAGRawData ==
    {("course_code" :> "c1") @@ ("title" :> "A")
        @@ ("fields" :> [Responsible |-> "T"])
        @@ ("learning_objectives" :> <<"o">>)
        @@ ("content" :> <<[ch |-> "a", n |-> 1999], [ch |-> "b", n |-> 2],
                           [ch |-> "c", n |-> 499]>>),
     ("course_code" :> "c2") @@ ("title" :> "C")
        @@ ("fields" :> [ECTS |-> "5"])
        @@ ("content" :> <<[ch |-> "a", n |-> 2000]>>),
     ("title" :> "B") @@ ("content" :> <<[ch |-> "x", n |-> 10]>>),
     ("course_code" :> "c1")}

RawCatalogs(svc) ==
    {[i \in 1..Len(c) |-> [key |-> IF svc = "ir" THEN AllIds[i] ELSE "",
                           data |-> c[i]]] :
        c \in UNION {[1..n -> IF svc = "ir" THEN IRRawData ELSE RAGRawData] :
                        n \in 0..MaxRaw}}

BuildInit ==
    \E svc \in {"ir", "rag"}, h \in {"uvicorn", "testclient"} :
        \E cs \in RawCatalogs(svc) : InitWith(svc, h, cs)

(* GET /v1/health *)
HealthRequest ==
    /\ Serving
    /\ call' = [op |-> "health", arg |-> "", mode |-> "", top_k |-> 0, alpha |-> 0]
    /\ fault' = "none"
    /\ scored' = FALSE
    /\ top_indices' = <<>>
    /\ IF course_retriever = "None"
       THEN /\ outcome' = "AttributeError"
            /\ results' = <<>>
       ELSE /\ outcome' = "returned"
            /\ results' = <<[status |-> "ok", courses |-> Len(course_ids),
                             objectives |-> Len(objective_texts)]>>
    /\ failed_before' = (failed_before \/ outcome' # "returned")
    /\ UNCHANGED <<index, process, prev, conc, http, apart>>

(* GET /v1/search with parameters that pass the Query(...) validation *)
SearchRequest ==
    /\ Serving
    /\ \E query \in Queries \ {""}, mode \in ValidModes,
          top_k \in 1..MaxTopK, alpha \in 0..AlphaDen :
        IF course_retriever = "None"
        THEN /\ call' = [op |-> "search", arg |-> query, mode |-> mode,
                         top_k |-> top_k, alpha |-> alpha]
             /\ fault' = "none"
             /\ outcome' = "AttributeError"
             /\ scored' = FALSE
             /\ top_indices' = <<>>
             /\ results' = <<>>
             /\ failed_before' = TRUE
             /\ UNCHANGED index
        ELSE \E f \in Faults(mode) :
                /\ fault' = f
                /\ search(query, mode, top_k, alpha)
    /\ UNCHANGED <<process, prev, conc, http, apart>>

BuildNext == Lifespan \/ HealthRequest \/ SearchRequest \/ Return

BuildSpec == BuildInit /\ [][BuildNext]_vars

----------------------------------------------------------------------------
(* ConcSpec: FastAPI runs the def handlers in a thread pool, so two        *)
(* retriever calls can interleave statement by statement.  A call is       *)
(* split at its three statements: the scores, the ranking, the result      *)
(* list.  transform and encode do not raise here.  last_scores records     *)
(* the scores vector computed most recently by any thread.                 *)

ConcCatalogs ==
    {<<CourseA, CourseB, CourseC>>, <<CourseA, CourseA>>, <<CourseC, CourseZ>>}

ConcCalls ==
    {[op |-> "search", arg |-> "machine", mode |-> "sparse", top_k |-> 2, alpha |-> 1],
     [op |-> "search", arg |-> "machine", mode |-> "dense", top_k |-> 2, alpha |-> 1],
     [op |-> "search", arg |-> "", mode |-> "hybrid", top_k |-> MaxTopK, alpha |-> 1],
     [op |-> "search", arg |-> "stats", mode |-> "bm25", top_k |-> 1, alpha |-> 0],
     [op |-> "find_similar", arg |-> "c1", mode |-> "dense", top_k |-> 2, alpha |-> 1],
     [op |-> "find_similar", arg |-> "c2", mode |-> "hybrid", top_k |-> 1, alpha |-> 1],
     [op |-> "find_similar", arg |-> UnknownId, mode |-> "sparse", top_k |-> 1, alpha |-> 0]}

ConcInit == \E c \in ConcCatalogs : InitWith("ir", "uvicorn", IRCatalog(c))

Other(w) == CHOOSE v \in Workers : v # w

InCall(w) == threads[w].pc \in {"scoring", "ranking", "building"}

(* a thread reading the scores from an attribute of the shared retriever   *)
ScoresOf_SharedAttribute(w) == last_scores

(* scores / similarities is a local variable of the call *)
ScoresOf(w) == threads[w].scores

Step(w, t) ==
    /\ threads' = [threads EXCEPT
                      ![w] = [t EXCEPT !.overlapped = @ \/ InCall(Other(w))]]
    /\ UNCHANGED <<index, process, call, fault, outcome, scored, top_indices,
                   results, failed_before, prev, http, apart>>

(* the handler calls the method *)
Begin(w) ==
    /\ phase = "serving"
    /\ course_retriever = "built"
    /\ threads[w].pc = "idle"
    /\ \E c \in ConcCalls :
          Step(w, [IdleThread EXCEPT !.pc = "scoring", !.call = c])
    /\ UNCHANGED last_scores

(* the if/elif chain: the scores, or ValueError, or [] for an unknown id *)
Score(w) ==
    LET t == threads[w]
        c == t.call
        query_idx == IndexOf(course_ids, c.arg)
    IN  /\ t.pc = "scoring"
        /\ IF c.op = "find_similar" /\ query_idx = 0
           THEN /\ Step(w, [t EXCEPT !.pc = "done", !.outcome = "returned"])
                /\ UNCHANGED last_scores
           ELSE IF ~ModeAccepted(c.mode)
           THEN /\ Step(w, [t EXCEPT !.pc = "done", !.outcome = "ValueError"])
                /\ UNCHANGED last_scores
           ELSE LET scores == IF c.op = "search"
                              THEN SearchScores(c.arg, c.mode, c.alpha)
                              ELSE SimilarScores(query_idx, c.mode, c.alpha)
                IN  /\ Step(w, [t EXCEPT !.pc = "ranking", !.scores = scores])
                    /\ last_scores' = scores

(* top_indices = np.argsort(...)[::-1][...] *)
Rank(w) ==
    LET t == threads[w]
    IN  /\ t.pc = "ranking"
        /\ Step(w, [t EXCEPT !.pc = "building",
                             !.top = IF t.call.op = "search"
                                     THEN SearchTop(ScoresOf(w), t.call.top_k)
                                     ELSE SimilarTop(ScoresOf(w), t.call.top_k)])
        /\ UNCHANGED last_scores

(* the loop that builds the result list, and the return *)
Build(w) ==
    LET t == threads[w]
    IN  /\ t.pc = "building"
        /\ Step(w, [t EXCEPT !.pc = "done", !.outcome = "returned",
                             !.results = BuildResults(t.top, ScoresOf(w))])
        /\ UNCHANGED last_scores

(* the handler has sent its response *)
Finish(w) ==
    /\ threads[w].pc = "done"
    /\ threads' = [threads EXCEPT ![w] = IdleThread]
    /\ UNCHANGED <<index, process, call, fault, outcome, scored, top_indices,
                   results, failed_before, prev, last_scores,
                   http, apart>>

ConcNext ==
    \/ Lifespan
    \/ \E w \in Workers : Begin(w) \/ Score(w) \/ Rank(w) \/ Build(w) \/ Finish(w)

ConcSpec == ConcInit /\ [][ConcNext]_vars

----------------------------------------------------------------------------
(* HttpSpec: requests with raw parameters against both services.  FastAPI  *)
(* checks the parameters against the Query(...) declarations before it     *)
(* calls the handler and answers 422 when one fails; an HTTPException      *)
(* raised by the handler gives its status code, any other exception 500.   *)

(* le= of top_k in each endpoint's declaration *)
IRMaxTopK == 50

RAGSearchMaxTopK == 20

RAGAskMaxTopK == 10

TopKLimit(svc, endpoint) ==
    IF svc = "ir" THEN IRMaxTopK
    ELSE IF endpoint = "ask" THEN RAGAskMaxTopK
    ELSE RAGSearchMaxTopK

(* a top_k declaration without its le= *)
TopKInRange_NoUpperBound(top_k, limit) == top_k >= 1

(* top_k: int = Query(.., ge=1, le=limit) *)
TopKInRange(top_k, limit) == top_k >= 1 /\ top_k <= limit

(* the Query(...) declarations of an endpoint: min_length=1 on query (the  *)
(* path parameter course_id has none), ge/le on top_k, the regex           *)
(* ^(sparse|dense|hybrid)$ on mode, ge=0.0 and le=1.0 on alpha             *)
Validated(r) ==
    /\ r.endpoint # "similar" => r.arg # ""
    /\ TopKInRange(r.top_k, TopKLimit(service, r.endpoint))
    /\ r.mode \in {"sparse", "dense", "hybrid"}
    /\ r.alpha >= 0 /\ r.alpha <= AlphaDen

RawTopKs(endpoint) ==
    {0, 1, MaxTopK, TopKLimit(service, endpoint), TopKLimit(service, endpoint) + 1}

RawRequests(endpoint) ==
    {[endpoint |-> endpoint, arg |-> a, top_k |-> k, mode |-> m, alpha |-> al] :
        a \in IF endpoint = "similar"
              THEN {AllIds[i] : i \in 1..3} \cup {UnknownId}
              ELSE Queries,
        k \in RawTopKs(endpoint), m \in Modes, al \in Alphas}

(* the request is answered without a call of a retriever method *)
Reject(r, code, exc) ==
    /\ request' = r
    /\ status' = code
    /\ llm_calls' = 0
    /\ response' = NoResponse
    /\ call' = NoCall
    /\ fault' = "none"
    /\ outcome' = exc
    /\ scored' = FALSE
    /\ top_indices' = <<>>
    /\ results' = <<>>
    /\ UNCHANGED <<index, failed_before>>

(* a membership test that finds every id *)
NotFound_Never(course_id) == FALSE

(* course_id not in course_retriever.course_ids *)
NotFound(course_id) == \A i \in 1..Len(course_ids) : course_ids[i] # course_id

(* GET /v1/courses/{course_id}/similar *)
SimilarRequest ==
    /\ Serving
    /\ service = "ir"
    /\ \E r \in RawRequests("similar") :
        IF ~Validated(r) THEN Reject(r, 422, "RequestValidationError")
        ELSE IF course_retriever = "None" THEN Reject(r, 500, "AttributeError")
        ELSE IF NotFound(r.arg) THEN Reject(r, 404, "HTTPException")
        ELSE /\ request' = r
             /\ fault' = "none"
             /\ find_similar(r.arg, r.mode, r.top_k, r.alpha)
             /\ llm_calls' = 0
             /\ status' = IF outcome' = "returned" THEN 200 ELSE 500
             /\ response' = IF outcome' = "returned"
                            THEN [kind |-> "similar", query_course_id |-> r.arg,
                                  results |-> results', mode |-> r.mode,
                                  top_k |-> r.top_k]
                            ELSE NoResponse
    /\ UNCHANGED <<process, prev, conc, apart>>

(* GET /v1/search of either service *)
SearchEndpointRequest ==
    /\ Serving
    /\ \E r \in RawRequests("search") :
        IF ~Validated(r) THEN Reject(r, 422, "RequestValidationError")
        ELSE IF course_retriever = "None" THEN Reject(r, 500, "AttributeError")
        ELSE \E f \in Faults(r.mode) :
                /\ request' = r
                /\ fault' = f
                /\ search(r.arg, r.mode, r.top_k, r.alpha)
                /\ llm_calls' = 0
                /\ status' = IF outcome' = "returned" THEN 200 ELSE 500
                /\ response' = IF outcome' = "returned"
                               THEN [kind |-> "search", query |-> r.arg,
                                     mode |-> r.mode, results |-> results']
                               ELSE NoResponse
    /\ UNCHANGED <<process, prev, conc, apart>>

(* answer_question keeping only the first retrieved course *)
answer_question_FirstOnly(query, found) ==
    [kind |-> "ask", query |-> query,
     retrieved_courses |-> <<[course_code |-> found[1].course_id,
                              title       |-> found[1].title]>>]

(* rag.answer_question once generate_answer has returned: the answer text  *)
(* is the LLM's and is left out                                            *)
answer_question(query, found) ==
    [kind |-> "ask", query |-> query,
     retrieved_courses |-> [k \in 1..Len(found) |->
                              [course_code |-> found[k].course_id,
                               title       |-> found[k].title]]]

(* GET /v1/ask of the RAG service; generate_answer calls the LLM, which    *)
(* answers or raises                                                       *)
AskRequest ==
    /\ Serving
    /\ service = "rag"
    /\ \E r \in RawRequests("ask") :
        IF ~Validated(r) THEN Reject(r, 422, "RequestValidationError")
        ELSE IF course_retriever = "None" THEN Reject(r, 500, "AttributeError")
        ELSE \E f \in Faults(r.mode), llm_answers \in BOOLEAN :
                /\ request' = r
                /\ fault' = f
                /\ search(r.arg, r.mode, r.top_k, r.alpha)
                /\ IF outcome' # "returned"
                   THEN /\ status' = 500
                        /\ llm_calls' = 0
                        /\ response' = NoResponse
                   ELSE IF results' = <<>>
                   THEN /\ status' = 404
                        /\ llm_calls' = 0
                        /\ response' = NoResponse
                   ELSE /\ llm_calls' = 1
                        /\ status' = IF llm_answers THEN 200 ELSE 500
                        /\ response' = IF llm_answers
                                       THEN answer_question(r.arg, results')
                                       ELSE NoResponse
    /\ UNCHANGED <<process, prev, conc, apart>>

HttpRecords == {<<CourseA, CourseB, CourseC>>, <<CourseC, CourseZ>>}

(* dtu_courses.jsonl of the RAG service for such a catalog *)
RAGCatalog(c) ==
    [i \in 1..Len(c) |->
        [key |-> "", data |-> ("course_code" :> AllIds[i]) @@ ("title" :> c[i].title)]]

HttpInit ==
    \E svc \in {"ir", "rag"}, h \in {"uvicorn", "testclient"}, c \in HttpRecords :
        InitWith(svc, h, IF svc = "ir" THEN IRCatalog(c) ELSE RAGCatalog(c))

HttpNext ==
    Lifespan \/ SimilarRequest \/ SearchEndpointRequest \/ AskRequest \/ Return

HttpSpec == HttpInit /\ [][HttpNext]_vars

----------------------------------------------------------------------------
(* SentimentSpec: SentimentAnalyzer.analyze behind POST /v1/sentiment.  A  *)
(* text is the sequence of its whitespace-separated words.  The            *)
(* dictionaries are extracts of the source's, with its numbers; an         *)
(* intensifier is carried in tenths and a score in hundredths.             *)

MaxWords == 3

Words == {"excellent", "good", "Good.", "terrible", "very", "extremely", "not",
          "fantastisk", "godt", "meget", "ikke", "kursus", "lærer"}

(* str.lower() *)
Lower(word) == IF word = "Good." THEN "good." ELSE word

(* str.strip('.,!?;:') *)
Strip(word) == IF word = "good." THEN "good" ELSE word

DANISH_WORDS == {"ikke", "kursus", "lærer", "godt", "meget"}

ENGLISH_WORDS == {"good", "very", "not"}

(* any(char in text for char in DANISH_CHARS) *)
HasDanishChar(word) == word = "lærer"

(* LanguageDetector.detect *)
detect(text) ==
    LET words == {Lower(text[i]) : i \in 1..Len(text)}
        danish_matches  == Cardinality(words \cap DANISH_WORDS)
        english_matches == Cardinality(words \cap ENGLISH_WORDS)
    IN  IF \E i \in 1..Len(text) : HasDanishChar(text[i]) THEN "da"
        ELSE IF danish_matches > english_matches THEN "da"
        ELSE "en"

danish_sentiment ==
    ("fantastisk" :> 5) @@ ("godt" :> 3) @@ ("terrible" :> (0 - 5))

english_sentiment ==
    ("excellent" :> 5) @@ ("good" :> 3) @@ ("terrible" :> (0 - 5))

danish_intensifiers == ("meget" :> 15)

english_intensifiers == ("very" :> 15) @@ ("extremely" :> 17)

danish_negations == {"ikke"}

english_negations == {"not"}

sentiment_dict(language) ==
    IF language = "da" THEN danish_sentiment ELSE english_sentiment

intensifiers(language) ==
    IF language = "da" THEN danish_intensifiers ELSE english_intensifiers

negations(language) ==
    IF language = "da" THEN danish_negations ELSE english_negations

(* words[i].strip('.,!?;:') of the lowercased text *)
WordAt(text, i) == Strip(Lower(text[i]))

(* final_score of the sentiment word at position i, in hundredths *)
WordScore(text, language, i) ==
    LET base_score  == sentiment_dict(language)[WordAt(text, i)]
        intensifier == IF i > 1 /\ WordAt(text, i - 1) \in DOMAIN intensifiers(language)
                       THEN intensifiers(language)[WordAt(text, i - 1)]
                       ELSE 10
        is_negated  == \E j \in (IF i - 2 > 1 THEN i - 2 ELSE 1)..(i - 1) :
                          WordAt(text, j) \in negations(language)
    IN  IF is_negated
        THEN (0 - base_score * intensifier) * 8
        ELSE base_score * intensifier * 10

(* the positions whose word is a sentiment word *)
Scored(text, language) ==
    {i \in 1..Len(text) : WordAt(text, i) \in DOMAIN sentiment_dict(language)}

(* sum(scores) *)
RECURSIVE SumScores(_, _, _)
SumScores(text, language, S) ==
    IF S = {} THEN 0
    ELSE LET i == CHOOSE k \in S : TRUE
         IN  WordScore(text, language, i) + SumScores(text, language, S \ {i})

(* round(num / den) for den > 0: the nearest integer; at an exact half the *)
(* floating-point average may lie on either side, so both neighbours       *)
Round(num, den) ==
    LET f == num \div den
        r == num % den
    IN  IF 2 * r < den THEN {f}
        ELSE IF 2 * r > den THEN {f + 1}
        ELSE {f, f + 1}

(* a clamp that lets the rounded average through *)
Clamp_Unbounded(x) == x

(* max(-5, min(5, x)) *)
Clamp(x) == IF x > 5 THEN 5 ELSE IF x < 0 - 5 THEN 0 - 5 ELSE x

(* SentimentAnalyzer.analyze: the values it can return *)
analyze(text) ==
    LET language == detect(text)
        S        == Scored(text, language)
    IN  IF S = {} THEN {0}
        ELSE {Clamp(x) : x \in Round(SumScores(text, language, S),
                                     100 * Cardinality(S))}

(* POST /v1/sentiment: the response model requires -5 <= score <= 5 *)
AnalyzeSentiment ==
    /\ sa_status = 0
    /\ sa_language' = detect(sa_words)
    /\ \E score \in analyze(sa_words) :
          /\ sa_score' = score
          /\ sa_status' = IF score >= 0 - 5 /\ score <= 5 THEN 200 ELSE 500
    /\ UNCHANGED <<sa_words, retrieval, pdf>>

Texts == UNION {[1..n -> Words] : n \in 0..MaxWords}

SentimentInit ==
    /\ InitRetrieval("ir", "uvicorn", <<>>)
    /\ PdfIdle
    /\ sa_words \in Texts
    /\ sa_language = "none"
    /\ sa_score = 0
    /\ sa_status = 0

SentimentNext == AnalyzeSentiment

SentimentSpec == SentimentInit /\ [][SentimentNext]_vars

----------------------------------------------------------------------------
(* PdfSpec: POST /v1/extract-sentences.  A filename is its stem and its    *)
(* extension as os.path.splitext gives them; a temporary file is named by  *)
(* the number of the upload that created it.  fault is the step of the     *)
(* request that raises: the GROBID request, the XML parse, or the          *)
(* sentence splitting.                                                     *)

MaxUploads == 4

Filenames ==
    {[stem |-> "paper", suffix |-> ".pdf"], [stem |-> "test", suffix |-> ".txt"],
     [stem |-> "scan", suffix |-> ".PDF"], [stem |-> "notes", suffix |-> ""]}

PdfFaults == {"none", "grobid", "xml", "split"}

(* pdf_file.filename.endswith('.pdf') *)
EndsWithPdf(filename) == filename.suffix = ".pdf"

(* extract_sentences_endpoint: the 400 check, save_temp_file (a            *)
(* NamedTemporaryFile with delete=False), extract_text_from_pdf,           *)
(* extract_sentences, os.remove(temp_path), the response; an exception     *)
(* leaves the handler at the statement that raised it                      *)
extract_sentences_endpoint ==
    /\ uploads < MaxUploads
    /\ \E filename \in Filenames, f \in PdfFaults :
          /\ pdf_upload' = [filename |-> filename, fault |-> f]
          /\ uploads' = uploads + 1
          /\ IF ~EndsWithPdf(filename)
             THEN /\ pdf_status' = 400
                  /\ temp_files' = temp_files
             ELSE LET temp_path == uploads + 1
                      saved     == temp_files \cup {temp_path}
                  IN  IF f # "none"
                      THEN /\ pdf_status' = 500
                           /\ temp_files' = saved
                      ELSE /\ pdf_status' = 200
                           /\ temp_files' = saved \ {temp_path}
    /\ UNCHANGED <<retrieval, sentiment>>

PdfInit == InitRetrieval("ir", "uvicorn", <<>>) /\ SentimentIdle /\ PdfIdle

PdfNext == extract_sentences_endpoint

PdfSpec == PdfInit /\ [][PdfNext]_vars

TypeOK ==
    /\ Len(course_ids) \in 0..(MaxDocs + MaxRaw)
    /\ Len(metadata) = Len(course_ids)
    /\ Len(tfidf_matrix) = Len(course_ids)
    /\ Len(embeddings) = Len(course_ids)
    /\ Len(texts) = Len(course_ids)
    /\ phase \in {"starting", "serving", "failed"}
    /\ course_retriever \in {"None", "built"}
    /\ outcome \in {"none", "returned", "ValueError", "DependencyError",
                    "AttributeError", "RequestValidationError", "HTTPException"}
    /\ status \in {0, 200, 404, 422, 500}
    /\ llm_calls \in {0, 1}
    /\ Len(objective_metadata) = Len(objective_texts)
    /\ sa_status \in {0, 200, 500}
    /\ sa_language \in {"none", "da", "en"}
    /\ pdf_status \in {0, 200, 400, 500}
    /\ uploads \in 0..(MaxUploads + 1)
    /\ temp_files \subseteq 1..(MaxUploads + 1)
    /\ scored \in BOOLEAN
    /\ failed_before \in BOOLEAN
    /\ Len(results) = Len(top_indices) \/ call.op = "health"

----------------------------------------------------------------------------
(* Vocabulary of the properties *)

NumDocs == Len(course_ids)

Min(a, b) == IF a < b THEN a ELSE b

Range(s) == {s[k] : k \in 1..Len(s)}

IsSearch == call.op = "search"

IsFindSimilar == call.op = "find_similar"

Returned == outcome = "returned"

KnownId == call.arg \in Range(course_ids)

ValidAlpha == call.alpha \in 0..AlphaDen

SourceIdx == IndexOf(course_ids, call.arg)

(* the cosine rows of the current call, taken straight from the matrices *)
SparseRow ==
    IF IsSearch THEN CosineRow(Transform(call.arg), tfidf_matrix)
    ELSE CosineRow(tfidf_matrix[SourceIdx], tfidf_matrix)

DenseRow ==
    IF IsSearch THEN CosineRow(Encode(call.arg), embeddings)
    ELSE CosineRow(embeddings[SourceIdx], embeddings)

Fused(i) == call.alpha * DenseRow[i] + (AlphaDen - call.alpha) * SparseRow[i]

(* what search returns for the given arguments on the current index *)
SearchResults(query, mode, top_k, alpha) ==
    BuildResults(SearchTop(SearchScores(query, mode, alpha), top_k),
                 SearchScores(query, mode, alpha))

----------------------------------------------------------------------------
(* C1: for a document id present in the index, a recognised mode,          *)
(* top_k >= 1 and alpha in [0,1], the list returned by find_similar holds  *)
(* no entry for the source document itself.                                *)
C1_SourceExcluded ==
    (IsFindSimilar /\ Returned /\ KnownId /\ call.mode \in ValidModes
        /\ call.top_k >= 1 /\ ValidAlpha)
    => \A k \in 1..Len(top_indices) : top_indices[k] # SourceIdx

(* C2: in search and find_similar, of two returned documents with equal    *)
(* scores the one earlier in ingestion order comes earlier in the result   *)
(* list.                                                                   *)
C2_TiesInIngestionOrder ==
    Returned =>
        \A k, l \in 1..Len(results) :
            (k < l /\ results[k].score = results[l].score)
            => top_indices[k] < top_indices[l]

(* C3: search with a recognised mode and top_k = k >= 1 over N documents   *)
(* returns exactly min(k, N) results.                                      *)
C3_SearchLength ==
    (IsSearch /\ call.mode \in ValidModes /\ call.top_k >= 1 /\ fault = "none")
    => /\ Returned
       /\ Len(results) = Min(call.top_k, NumDocs)

C3_Witness ==
    /\ IsSearch /\ Returned /\ call.top_k > NumDocs
    /\ NumDocs = MaxDocs
    /\ Len(results) = NumDocs

(* C4: a hybrid search with alpha = 1 returns the ordered documents and    *)
(* scores of the dense search with the same query and top_k, and with      *)
(* alpha = 0 those of the sparse search.                                   *)
C4_HybridIdentity ==
    (IsSearch /\ Returned /\ call.mode = "hybrid")
    => /\ call.alpha = AlphaDen
            => results = SearchResults(call.arg, "dense", call.top_k, call.alpha)
       /\ call.alpha = 0
            => results = SearchResults(call.arg, "sparse", call.top_k, call.alpha)

C4_Witness ==
    /\ IsSearch /\ Returned /\ call.mode = "hybrid" /\ call.alpha = AlphaDen
    /\ Len(results) >= 2
    /\ results # SearchResults(call.arg, "sparse", call.top_k, call.alpha)
    /\ results = SearchResults(call.arg, "dense", call.top_k, call.alpha)

(* C5: the list returned by search is sorted non-increasing by score.      *)
C5_SearchSorted ==
    (IsSearch /\ Returned)
    => \A k \in 1..(Len(results) - 1) : results[k].score >= results[k + 1].score

C5_Witness ==
    /\ IsSearch /\ Returned
    /\ Len(results) >= 3
    /\ results[1].score > results[2].score
    /\ results[2].score > results[3].score

(* C6: a search or find_similar call with a mode outside                   *)
(* {sparse, dense, hybrid} fails with an invalid-argument error and        *)
(* returns no result list, whatever the other arguments.                   *)
C6_InvalidModeFails ==
    ((IsSearch \/ IsFindSimilar) /\ call.mode \notin ValidModes)
    => outcome = "ValueError"

(* C7: find_similar with a document id that is not in the index and a      *)
(* recognised mode returns the empty sequence and raises no error, for     *)
(* every top_k and alpha.                                                  *)
C7_UnknownIdEmpty ==
    (IsFindSimilar /\ ~KnownId /\ call.mode \in ValidModes)
    => /\ Returned
       /\ results = <<>>

C7_Witness ==
    /\ IsFindSimilar /\ ~KnownId /\ call.mode = "hybrid"
    /\ call.top_k >= 1 /\ NumDocs >= 2
    /\ Returned /\ results = <<>>

(* C8: a search or find_similar call with top_k < 1 or alpha outside       *)
(* [0,1] fails with an invalid-argument error before any score is          *)
(* computed.                                                               *)
C8_InvalidArgumentsFail ==
    ((IsSearch \/ IsFindSimilar) /\ (call.top_k < 1 \/ ~ValidAlpha))
    => /\ outcome = "ValueError"
       /\ ~scored

(* C9: in hybrid mode every returned score is                              *)
(* alpha * dense[i] + (1 - alpha) * sparse[i] for the returned document's  *)
(* own position i, and the returned documents are the head of the ranking  *)
(* of the fused full-length vector: search leaves out no document scoring  *)
(* above a returned one, find_similar at most the one it skips.            *)
C9_FusedBeforeTruncation ==
    ((IsSearch \/ (IsFindSimilar /\ KnownId)) /\ Returned
        /\ call.mode = "hybrid" /\ call.top_k >= 1)
    => /\ \A k \in 1..Len(results) : results[k].score = Fused(top_indices[k])
       /\ \A k, l \in 1..Len(top_indices) : k # l => top_indices[k] # top_indices[l]
       /\ Cardinality({i \in 1..NumDocs \ Range(top_indices) :
                          \E k \in 1..Len(results) : Fused(i) > results[k].score})
            <= (IF IsSearch THEN 0 ELSE 1)

(* a hybrid search returning a document that neither single-mode ranking   *)
(* has in its top_k                                                        *)
C9_Witness ==
    /\ IsSearch /\ Returned /\ call.mode = "hybrid" /\ ValidAlpha
    /\ call.top_k >= 1 /\ call.top_k < NumDocs
    /\ \E k \in 1..Len(top_indices) :
          /\ top_indices[k] \notin
                Range(SearchTop(SearchScores(call.arg, "sparse", call.alpha), call.top_k))
          /\ top_indices[k] \notin
                Range(SearchTop(SearchScores(call.arg, "dense", call.alpha), call.top_k))

(* C10: find_similar with a known id, a recognised mode and                *)
(* top_k = k >= 1 over N documents returns exactly min(k, N - 1) results.  *)
C10_SimilarLength ==
    (IsFindSimilar /\ KnownId /\ call.mode \in ValidModes /\ call.top_k >= 1)
    => /\ Returned
       /\ Len(results) = Min(call.top_k, NumDocs - 1)

C10_Witness ==
    /\ IsFindSimilar /\ KnownId /\ Returned
    /\ NumDocs = 3 /\ call.top_k > NumDocs
    /\ Len(results) = 2

(* C11: when the query has no term of the fitted vocabulary (it            *)
(* vectorizes to the zero row), a sparse search is not an error, every     *)
(* returned score is 0 and, for top_k >= 1, min(top_k, N) results come     *)
(* back.                                                                   *)
C11_ZeroQueryScoresZero ==
    (IsSearch /\ call.mode = "sparse" /\ fault = "none"
        /\ Transform(call.arg) = <<0, 0>>)
    => /\ Returned
       /\ \A k \in 1..Len(results) : results[k].score = 0
       /\ call.top_k >= 1 => Len(results) = Min(call.top_k, NumDocs)

(* over an index holding a document with terms and one without any *)
C11_Witness ==
    /\ IsSearch /\ call.mode = "sparse" /\ Transform(call.arg) = <<0, 0>>
    /\ Returned /\ Len(results) = NumDocs /\ NumDocs >= 2
    /\ \E i, j \in 1..NumDocs :
          tfidf_matrix[i] = <<0, 0>> /\ tfidf_matrix[j] # <<0, 0>>
    /\ \A k \in 1..Len(results) : results[k].score = 0

(* C12: once the index is built, texts, metadata, identifiers, the sparse  *)
(* matrix and the embeddings all have one entry per catalog record, entry  *)
(* i of each belongs to record i, and a result built for position i        *)
(* carries the identifier and title of record i.                           *)
C12_ParallelSequences ==
    course_retriever = "built"
    => /\ Len(texts) = Len(courses)
       /\ Len(metadata) = Len(courses)
       /\ Len(course_ids) = Len(courses)
       /\ Len(tfidf_matrix) = Len(courses)
       /\ Len(embeddings) = Len(courses)
       /\ \A i \in 1..Len(courses) :
            /\ course_ids[i] = IF service = "ir" THEN courses[i].key
                               ELSE Get(courses[i].data, "course_code", "")
            /\ metadata[i].title = Get(courses[i].data, "title", "")
            /\ texts[i][1] = Get(courses[i].data, "title", "")
            /\ tfidf_matrix[i] = TfidfRow(texts[i])
            /\ embeddings[i] = EmbRow(texts[i])
       /\ (IsSearch /\ Returned)
            => \A k \in 1..Len(results) :
                  /\ results[k].course_id = course_ids[top_indices[k]]
                  /\ results[k].title =
                        Get(courses[top_indices[k]].data, "title", "")

C12_Witness ==
    /\ course_retriever = "built" /\ service = "ir" /\ Len(courses) >= 2
    /\ metadata[1].title # metadata[2].title
    /\ IsSearch /\ Returned /\ Len(results) >= 2
    /\ results[1].course_id = courses[top_indices[1]].key

(* C13: no search or find_similar call, successful or failing, changes     *)
(* the retriever's texts, metadata, identifiers, sparse matrix or          *)
(* embeddings.                                                             *)
C13_QueriesKeepIndex ==
    [][course_retriever = "built" => index' = index]_vars

(* a call that returned results after an earlier call failed *)
C13_Witness ==
    /\ failed_before /\ Returned /\ Len(results) >= 2
    /\ (IsSearch \/ IsFindSimilar)
    /\ texts # <<>>

(* C14: whenever a request is being handled the retriever reference is a   *)
(* fully built retriever, and after a failed build no request is handled.  *)
C14_HandlersAfterBuild ==
    /\ ~Idle => (course_retriever = "built" /\ phase = "serving")
    /\ phase = "failed" => Idle

(* C16: after a call has failed, a later call returns what it returns      *)
(* without that failure.                                                   *)
C16_ErrorsAreLocal ==
    failed_before
    => /\ (IsSearch /\ call.mode \in ValidModes /\ fault = "none")
            => /\ Returned
               /\ results = SearchResults(call.arg, call.mode, call.top_k, call.alpha)
       /\ (IsFindSimilar /\ KnownId /\ call.mode \in ValidModes)
            => /\ Returned
               /\ results =
                    BuildResults(
                        SimilarTop(SimilarScores(SourceIdx, call.mode, call.alpha),
                                   call.top_k),
                        SimilarScores(SourceIdx, call.mode, call.alpha))

C16_Witness ==
    /\ failed_before /\ IsSearch /\ fault = "none"
    /\ Returned /\ Len(results) >= 2

C19_BuilderNeverFails == build_error # "KeyError"

(* C20: over an empty catalog the build succeeds and a search returns the  *)
(* empty list.                                                             *)
C20_EmptyCatalogServes ==
    (courses = <<>> /\ host = "uvicorn" /\ phase # "starting")
    => /\ phase = "serving"
       /\ build_error = "none"
       /\ IsSearch => (Returned /\ results = <<>>)

(* what a call returns when it runs alone on the current index *)
AloneOutcome(c) ==
    IF c.op = "find_similar" /\ IndexOf(course_ids, c.arg) = 0 THEN "returned"
    ELSE IF c.mode \notin ValidModes THEN "ValueError"
    ELSE "returned"

AloneResults(c) ==
    IF AloneOutcome(c) # "returned" THEN <<>>
    ELSE IF c.op = "search"
    THEN SearchResults(c.arg, c.mode, c.top_k, c.alpha)
    ELSE IF IndexOf(course_ids, c.arg) = 0 THEN <<>>
    ELSE BuildResults(
            SimilarTop(SimilarScores(IndexOf(course_ids, c.arg), c.mode, c.alpha),
                       c.top_k),
            SimilarScores(IndexOf(course_ids, c.arg), c.mode, c.alpha))

(* C15: under every interleaving of two request threads, a call that has   *)
(* finished has the outcome and the results it has when it runs alone.     *)
C15_ConcurrentCallsIsolated ==
    \A w \in Workers :
        threads[w].pc = "done"
        => /\ threads[w].outcome = AloneOutcome(threads[w].call)
           /\ threads[w].results = AloneResults(threads[w].call)

(* a finished call whose steps overlapped another call that computed       *)
(* different scores after it                                               *)
C15_Witness ==
    \E w \in Workers :
        /\ threads[w].pc = "done" /\ threads[w].overlapped
        /\ threads[w].results # <<>>
        /\ last_scores # threads[w].scores
        /\ threads[w].results = AloneResults(threads[w].call)

(* C21: the identifier sequence of a built index holds no identifier       *)
(* twice.                                                                  *)
C21_IdsUnique ==
    course_retriever = "built"
    => \A i, j \in 1..Len(course_ids) : course_ids[i] = course_ids[j] => i = j

(* the objectives of catalog record c, and how many objective documents    *)
(* the records before record c account for                                 *)
ObjectivesOf(c) == courses[c].data["learning-objectives"]

RECURSIVE ObjectivesBefore(_)
ObjectivesBefore(c) ==
    IF c <= 1 THEN 0 ELSE ObjectivesBefore(c - 1) + Len(ObjectivesOf(c - 1))

(* C22: the objective-level index holds one document per (course,          *)
(* objective) pair, courses in catalog order and objectives in their own   *)
(* order; the document of objective k of record c is "{title} - {k-th      *)
(* objective}" and its metadata names that course, title and objective;    *)
(* the number of documents is the sum of the objective counts.             *)
C22_OneDocumentPerObjective ==
    (service = "ir" /\ course_retriever = "built")
    => /\ Len(objective_texts) = ObjectivesBefore(Len(courses) + 1)
       /\ Len(objective_metadata) = Len(objective_texts)
       /\ \A c \in 1..Len(courses) : \A k \in 1..Len(ObjectivesOf(c)) :
            LET i == ObjectivesBefore(c) + k
            IN  /\ objective_texts[i] =
                      <<courses[c].data["title"], "-", ObjectivesOf(c)[k]>>
                /\ objective_metadata[i] =
                      [course_id |-> courses[c].key,
                       title     |-> courses[c].data["title"],
                       objective |-> ObjectivesOf(c)[k]]

(* a course without objectives followed by a course with two *)
C22_Witness ==
    /\ service = "ir" /\ course_retriever = "built"
    /\ Len(courses) = 2
    /\ ObjectivesOf(1) = <<>>
    /\ Len(ObjectivesOf(2)) = 2
    /\ Len(objective_texts) = 2
    /\ objective_metadata[2].objective = ObjectivesOf(2)[2]
    /\ objective_metadata[1].objective # objective_metadata[2].objective

(* character k of a string given by its runs *)
RECURSIVE CharAt(_, _)
CharAt(str, k) ==
    IF k <= Head(str).n THEN Head(str).ch ELSE CharAt(Tail(str), k - Head(str).n)

Count(b) == IF b THEN 1 ELSE 0

(* C23: in a document built by build_course_text the parts are, in this    *)
(* order, the title, the 'Taught by' phrase when the fields name a         *)
(* responsible, the fields dump when there are fields, the joined          *)
(* objectives when there are any, and the content when there is any; the   *)
(* content part is the first min(len, 2000) characters of the content.     *)
C23_ContentTruncated ==
    (service = "rag" /\ course_retriever = "built")
    => \A i \in 1..Len(courses) :
         LET course     == courses[i].data
             fields     == Get(course, "fields", EmptyDict)
             objectives == Get(course, "learning_objectives", <<>>)
             content    == Get(course, "content", <<>>)
             hasFields  == DOMAIN fields # {}
             hasTaught  == hasFields /\ "Responsible" \in DOMAIN fields
             hasObj     == objectives # <<>>
             hasContent == content # <<>>
             afterFields == 1 + Count(hasTaught) + Count(hasFields)
             parts      == texts[i]
         IN  /\ Len(parts) = afterFields + Count(hasObj) + Count(hasContent)
             /\ parts[1] = Get(course, "title", "")
             /\ hasTaught => parts[2] = <<"Taught by", fields["Responsible"]>>
             /\ hasFields => parts[afterFields] = <<"json", fields>>
             /\ hasObj => parts[afterFields + 1] = <<"joined", objectives>>
             /\ hasContent =>
                  LET body == parts[Len(parts)][2]
                  IN  /\ parts[Len(parts)][1] = "content"
                      /\ StrLen(body) <= 2000
                      /\ StrLen(body) = Min(StrLen(content), 2000)
                      /\ \A k \in 1..StrLen(body) :
                            CharAt(body, k) = CharAt(content, k)

(* a document with every part whose content is longer than the limit and   *)
(* changes character just before it                                        *)
C23_Witness ==
    /\ service = "rag" /\ course_retriever = "built"
    /\ \E i \in 1..Len(courses) :
          /\ Len(texts[i]) = 5
          /\ StrLen(courses[i].data["content"]) > 2000
          /\ StrLen(texts[i][5][2]) = 2000
          /\ CharAt(texts[i][5][2], 2000) = "b"
          /\ CharAt(texts[i][5][2], 1999) = "a"

(* document i and the query of the current call have a vocabulary term in  *)
(* common: a column in which both tf-idf rows are positive                 *)
SharesTerm(i) ==
    \E d \in 1..2 : Transform(call.arg)[d] > 0 /\ tfidf_matrix[i][d] > 0

PositionIn(seq, x) == CHOOSE k \in 1..Len(seq) : seq[k] = x

(* C24: in a sparse search every returned document that shares a           *)
(* vocabulary term with the query has a score above 0, every returned      *)
(* document that shares none has score 0, and a document that shares none  *)
(* is never returned without, and never before, a document that shares     *)
(* one.                                                                    *)
C24_SharedTermRanksFirst ==
    (IsSearch /\ Returned /\ call.mode = "sparse")
    => /\ \A k \in 1..Len(results) :
            IF SharesTerm(top_indices[k])
            THEN results[k].score > 0
            ELSE results[k].score = 0
       /\ \A i, j \in 1..NumDocs :
            (SharesTerm(i) /\ ~SharesTerm(j) /\ j \in Range(top_indices))
            => /\ i \in Range(top_indices)
               /\ PositionIn(top_indices, i) < PositionIn(top_indices, j)

(* three documents of which two share a term with the query, all returned, *)
(* the one without a shared term last                                      *)
C24_Witness ==
    /\ IsSearch /\ Returned /\ call.mode = "sparse"
    /\ NumDocs = 3 /\ Len(results) = 3
    /\ SharesTerm(top_indices[1]) /\ SharesTerm(top_indices[2])
    /\ ~SharesTerm(top_indices[3])
    /\ Norm(tfidf_matrix[top_indices[3]]) > 0
    /\ results[2].score > 0 /\ results[3].score = 0

(* C25: with a built retriever, a similar-courses request that passes the  *)
(* parameter validation is answered 404 without a call of find_similar     *)
(* when its course id is not in the index, and otherwise 200 with the      *)
(* results of find_similar and the requested id, mode and top_k.           *)
C25_SimilarEndpoint ==
    (request.endpoint = "similar" /\ status # 422 /\ course_retriever = "built")
    => IF request.arg \notin Range(course_ids)
       THEN status = 404 /\ call = NoCall /\ response = NoResponse
       ELSE /\ status = 200
            /\ IsFindSimilar /\ Returned
            /\ call.arg = request.arg /\ call.mode = request.mode
            /\ call.top_k = request.top_k /\ call.alpha = request.alpha
            /\ response.query_course_id = request.arg
            /\ response.mode = request.mode
            /\ response.top_k = request.top_k
            /\ response.results = results
            /\ results = AloneResults(call)

(* a valid request for an id that is in the id space but not in this index *)
C25_Witness ==
    /\ request.endpoint = "similar" /\ course_retriever = "built"
    /\ request.arg = "c3" /\ NumDocs = 2
    /\ request.top_k = 50
    /\ status = 404 /\ call = NoCall

(* C26: a search or ask request whose query is empty, whose top_k is below *)
(* 1 or above the endpoint's maximum (50 information-retrieval, 20 RAG     *)
(* search, 10 RAG ask), whose mode is not sparse, dense or hybrid, or      *)
(* whose alpha is outside [0,1] is answered 422 and no retriever method    *)
(* is called.                                                              *)
C26_InvalidParametersRejected ==
    (/\ request.endpoint \in {"search", "ask"}
     /\ \/ request.arg = ""
        \/ request.top_k < 1
        \/ request.top_k > (IF service = "ir" THEN 50
                            ELSE IF request.endpoint = "ask" THEN 10 ELSE 20)
        \/ request.mode \notin {"sparse", "dense", "hybrid"}
        \/ request.alpha < 0
        \/ request.alpha > AlphaDen)
    => /\ status = 422
       /\ call = NoCall
       /\ ~scored

(* a RAG ask request that only its top_k of 11 makes invalid, sent to a    *)
(* built retriever                                                         *)
C26_Witness ==
    /\ service = "rag" /\ course_retriever = "built"
    /\ request.endpoint = "ask" /\ request.top_k = 11
    /\ request.arg # "" /\ request.mode = "hybrid" /\ request.alpha = 1
    /\ status = 422 /\ call = NoCall

(* C29: an ask request is answered 404 exactly when search returned an     *)
(* empty list, and then the answer step is not called; when search         *)
(* returned courses the answer step is called once, and a 200 response     *)
(* lists the code and title of exactly those courses in the same order,    *)
(* min(top_k, N) of them.                                                  *)
C29_AskEndpoint ==
    request.endpoint = "ask"
    => /\ status = 404 <=> (IsSearch /\ Returned /\ results = <<>>)
       /\ status = 404 => llm_calls = 0
       /\ (IsSearch /\ Returned /\ results # <<>>)
          => /\ llm_calls = 1
             /\ status \in {200, 500}
             /\ status = 200
                => /\ Len(response.retrieved_courses) = Len(results)
                   /\ Len(response.retrieved_courses) = Min(request.top_k, NumDocs)
                   /\ \A k \in 1..Len(results) :
                        /\ response.retrieved_courses[k].course_code =
                              results[k].course_id
                        /\ response.retrieved_courses[k].title = results[k].title
       /\ ~(IsSearch /\ Returned) => llm_calls = 0

(* an answered question for which search returned several courses *)
C29_Witness ==
    /\ request.endpoint = "ask" /\ status = 200 /\ llm_calls = 1
    /\ Len(results) >= 2
    /\ Len(response.retrieved_courses) = Len(results)
    /\ response.retrieved_courses[2].course_code = results[2].course_id
    /\ results[1].course_id # results[2].course_id

(* C27: the score the sentiment endpoint has computed is an integer from   *)
(* -5 to 5, the response passes its validation, and the score is 0 when    *)
(* no word of the text is in the sentiment dictionary of the detected      *)
(* language.                                                               *)
C27_SentimentInRange ==
    sa_status # 0
    => /\ sa_score \in (0 - 5)..5
       /\ sa_status = 200
       /\ (\A i \in 1..Len(sa_words) :
              WordAt(sa_words, i) \notin DOMAIN sentiment_dict(sa_language))
          => sa_score = 0

(* a negated, intensified top-score word: -(5 * 1.7) * 0.8 = -6.8 *)
C27_Witness ==
    /\ sa_words = <<"not", "extremely", "excellent">>
    /\ sa_language = "en"
    /\ sa_status = 200
    /\ sa_score = 0 - 5

(* the score of document i under the mode of the current call *)
ModeScore(i) ==
    CASE call.mode = "sparse" -> AlphaDen * SparseRow[i]
      [] call.mode = "dense"  -> AlphaDen * DenseRow[i]
      [] call.mode = "hybrid" -> Fused(i)

(* C28: in the list search returns, no document left out has a score       *)
(* strictly greater than a returned document's, no document is listed      *)
(* twice, and every entry carries the identifier, title and score of the   *)
(* document at its position in the index.                                  *)
C28_TopKBest ==
    (IsSearch /\ Returned)
    => /\ \A i \in 1..NumDocs : \A k \in 1..Len(results) :
            i \notin Range(top_indices) => ModeScore(i) <= results[k].score
       /\ \A j, k \in 1..Len(top_indices) :
            top_indices[j] = top_indices[k] => j = k
       /\ Len(results) = Len(top_indices)
       /\ \A k \in 1..Len(results) :
            /\ top_indices[k] \in 1..NumDocs
            /\ results[k].score = ModeScore(top_indices[k])
            /\ results[k].course_id = course_ids[top_indices[k]]
            /\ results[k].title = metadata[top_indices[k]].title

(* two of three documents returned, the one left out scoring strictly      *)
(* less than both, and the best document not the first of the index        *)
C28_Witness ==
    /\ IsSearch /\ Returned /\ call.top_k = 2
    /\ NumDocs = 3 /\ Len(results) = 2
    /\ top_indices[1] # 1
    /\ \E i \in 1..NumDocs :
          /\ i \notin Range(top_indices)
          /\ ModeScore(i) < results[2].score

(* C30: an upload whose name does not end in '.pdf' is answered 400 and    *)
(* creates no temporary file, and when a request has ended, with a         *)
(* response or with an error, no temporary file is left.                   *)
C30_TempFilesRemoved ==
    pdf_status # 0
    => /\ ~EndsWithPdf(pdf_upload.filename) => pdf_status = 400
       /\ temp_files = {}

====
